---- MODULE Spec2Model ----
(***************************************************************************)
(* Model of input_capture_api.session_manager.SessionManager: the registry *)
(* of active recording sessions and the start/end/read operations, run by  *)
(* concurrent calls on one cooperative (asyncio) event loop.  A step of    *)
(* the model is the code a coroutine runs between two await points.        *)
(***************************************************************************)
EXTENDS Integers, Sequences, FiniteSets, Bags, TLC

\* Bounds of the model.
MaxSessions == 2
MaxEvents == 1
MaxCalls == 2
\* The (name, metadata) pairs callers start sessions with.
StartRequests == {<<"demo", "purpose">>}
Ulids == 1..MaxSessions

\* ------------------------------------------------------------------------
\* Session identifier strings and the ULID conversions.
\* A string is a spelling of a ULID (the canonical upper-case one that
\* str() produces, or another spelling that from_str() also accepts, such
\* as lower case), or it is not a ULID at all.
\* ------------------------------------------------------------------------
Spellings == {"canonical", "lowercase"}
Malformed == [form |-> "malformed", ulid |-> 0]
SessionIdStrings == [form : Spellings, ulid : Ulids] \cup {Malformed}

\* Variant: a string that is no ULID is taken for some ULID instead of
\* being rejected.
from_str_lenient(session_id) ==
    [raises |-> FALSE, ulid |-> IF session_id.form \in Spellings THEN session_id.ulid ELSE 1]

\* ULID.from_str(session_id): the ULID a string spells; raises ValueError
\* when the string is no ULID.
from_str(session_id) ==
    IF session_id.form \in Spellings
    THEN [raises |-> FALSE, ulid |-> session_id.ulid]
    ELSE [raises |-> TRUE, ulid |-> 0]

\* str(ulid): the canonical spelling.
str(ulid) == [form |-> "canonical", ulid |-> ulid]

VARIABLES
    _sessions,    \* SessionManager._sessions: canonical id string -> entry
    ctxs,         \* the context managers recorder.session() has returned
    tasks,        \* state of the background task of each context
    stop_events,  \* the asyncio.Event handed to each task
    rec_sessions, \* the recorder's session records, in creation order
    rec_events,   \* the recorder's events per session
    calls,        \* the bag of calls suspended at an await: operation, position
    response,     \* the call that has just completed, and its outcome
    returned,     \* contexts whose end_session call has returned normally
    exchange      \* the HTTP request that has just been answered, and its answer

vars == <<_sessions, ctxs, tasks, stop_events, rec_sessions, rec_events,
          calls, response, returned, exchange>>

shared == <<_sessions, ctxs, tasks, stop_events, rec_sessions, rec_events>>

\* Python's None, and an optional value: the empty tuple or <<value>>.
None == << >>
Some(v) == <<v>>
\* The session of a context that has not been entered.
NoSession == [id |-> 0, name |-> "None", metadata |-> "None"]
\* The frame of a call suspended at an await point, on context k.
Frame(op, args, pc, k) == [op |-> op, args |-> args, pc |-> pc, k |-> k]
Suspend(f) == calls (+) SetToBag({f})
Resume(f) == calls (-) SetToBag({f})
Move(f, pc) == Resume(f) (+) SetToBag({[f EXCEPT !.pc = pc]})
\* No outcome: the last outcome has been handed to its caller.
NoResponse == [op |-> "none", args |-> << >>, k |-> 0,
               result |-> [status |-> "none", value |-> << >>]]
\* No exchange: the last HTTP answer has been sent.
NoExchange == [method |-> "none", path |-> << >>, body |-> << >>, manager |-> << >>,
               answer |-> [status_code |-> 0, detail |-> "", content |-> << >>,
                           invoked |-> << >>]]
\* The event loop takes its next step once the outcome of the call that
\* has just completed is with its caller.
Ready == response = NoResponse /\ exchange = NoExchange
\* A new call can be issued.
CanCall == Ready /\ BagCardinality(calls) < MaxCalls

\* A call's outcome: the value returned (a tuple: a list, or an optional
\* value), or the exception raised.
Ok(v) == [status |-> "ok", value |-> v]
Raise(e) == [status |-> e, value |-> None]

\* What a completed call leaves: what was called, on which context, and
\* the value returned or the exception raised.
Finished(op, args, k, result) ==
    [op |-> op, args |-> args, k |-> k, result |-> result]

Init ==
    /\ _sessions = << >>
    /\ ctxs = << >>
    /\ tasks = << >>
    /\ stop_events = << >>
    /\ rec_sessions = << >>
    /\ rec_events = [u \in Ulids |-> << >>]
    /\ calls = EmptyBag
    /\ response = NoResponse
    /\ returned = {}
    /\ exchange = NoExchange

\* ------------------------------------------------------------------------
\* The recorder collaborator.
\* ------------------------------------------------------------------------

\* The identifier the recorder gives the next session: a fresh ULID.
NewUlid == Len(rec_sessions) + 1

recorder_get_events(ulid) == rec_events[ulid]

\* The number of events the recorder holds, over all sessions.
RECURSIVE CountFrom(_)
CountFrom(u) == IF u > MaxSessions THEN 0 ELSE Len(rec_events[u]) + CountFrom(u + 1)
EventCount == CountFrom(1)

recorder_list_sessions == rec_sessions

recorder_get_session(ulid) ==
    IF \E i \in 1..Len(rec_sessions) : rec_sessions[i].id = ulid
    THEN Some(rec_sessions[CHOOSE i \in 1..Len(rec_sessions) : rec_sessions[i].id = ulid])
    ELSE None

\* ------------------------------------------------------------------------
\* start_session
\* ------------------------------------------------------------------------

\* Variant: the entry is keyed by the session's name instead of its id.
SessionKey_name(session) ==
    [form |-> "canonical", ulid |-> IF session.name = "demo" THEN 1 ELSE 2]

\* session_id = str(handle.session.id)
SessionKey(session) == str(session.id)

\* self._sessions[session_id] = (ctx, task, stop_event)
Register(reg, key, k) == (key :> k) @@ reg

\* ctx = self.recorder.session(name=name, metadata=metadata), then the
\* coroutine suspends in ctx.__aenter__().
StartCall(name, metadata) ==
    /\ CanCall
    /\ Len(ctxs) < MaxSessions
    /\ ctxs' = Append(ctxs, [name |-> name, metadata |-> metadata,
                             state |-> "entering", session |-> NoSession, exits |-> 0])
    /\ tasks' = Append(tasks, "none")
    /\ stop_events' = Append(stop_events, FALSE)
    /\ calls' = Suspend(Frame("start_session", <<name, metadata>>, "aenter",
                               Len(ctxs) + 1))
    /\ UNCHANGED <<_sessions, rec_sessions, rec_events, response, returned, exchange>>

\* __aenter__ returns the handle; the event and the task are created, the
\* entry is stored and the session record is returned.
StartAcquired(f) ==
    /\ Ready
    /\ f.pc = "aenter"
    /\ LET k == f.k
           session == [id |-> NewUlid, name |-> ctxs[k].name,
                       metadata |-> ctxs[k].metadata]
       IN /\ rec_sessions' = Append(rec_sessions, session)
          /\ ctxs' = [ctxs EXCEPT ![k].state = "entered", ![k].session = session]
          /\ stop_events' = [stop_events EXCEPT ![k] = FALSE]
          /\ tasks' = [tasks EXCEPT ![k] = "scheduled"]
          /\ _sessions' = Register(_sessions, SessionKey(session), k)
          /\ response' = Finished("start_session", f.args, k, Ok(Some(session)))
          /\ calls' = Resume(f)
    /\ UNCHANGED <<rec_events, returned, exchange>>

\* Variant: the task is created and the entry stored although __aenter__
\* raised.
StartAcquireFail_partial(f) ==
    /\ Ready
    /\ f.pc = "aenter"
    /\ ctxs' = [ctxs EXCEPT ![f.k].state = "enter_failed"]
    /\ tasks' = [tasks EXCEPT ![f.k] = "scheduled"]
    /\ _sessions' = (str(f.k) :> f.k) @@ _sessions
    /\ response' = Finished("start_session", f.args, f.k, Raise("AcquireError"))
    /\ calls' = Resume(f)
    /\ UNCHANGED <<stop_events, rec_sessions, rec_events, returned, exchange>>

\* __aenter__ raises: the exception leaves start_session at line 44.
StartAcquireFail(f) ==
    /\ Ready
    /\ f.pc = "aenter"
    /\ ctxs' = [ctxs EXCEPT ![f.k].state = "enter_failed"]
    /\ response' = Finished("start_session", f.args, f.k, Raise("AcquireError"))
    /\ calls' = Resume(f)
    /\ UNCHANGED <<_sessions, tasks, stop_events, rec_sessions, rec_events, returned, exchange>>

\* ------------------------------------------------------------------------
\* end_session
\* ------------------------------------------------------------------------

\* Variant: the entry is looked up but left in the registry.
Pop_keep(reg, key) == reg

\* self._sessions.pop(session_id_str): the registry without the key.
Pop(reg, key) == [x \in DOMAIN reg \ {key} |-> reg[x]]

\* ctx.__aexit__(None, None, None) is invoked.
InvokeExit(cs, k) == [cs EXCEPT ![k].state = "exiting", ![k].exits = @ + 1]

\* Variant: the stop event is left unset.
Signal_skip(evs, k) == evs

\* stop_event.set()
Signal(evs, k) == [evs EXCEPT ![k] = TRUE]

\* Variant: a missing key is no error (pop with a default).
MissingKey_default == Ok(None)

\* self._sessions.pop(session_id_str) when the key is absent: KeyError.
MissingKey == Raise("KeyError")

\* Lines 63-71 up to the first suspension: parse, pop, set the event, and
\* `await task`, which does not suspend when the task is already done.
EndCall(session_id) ==
    /\ CanCall
    /\ LET ulid_id == from_str(session_id)
           session_id_str == str(ulid_id.ulid)
       IN IF ulid_id.raises
          THEN /\ response' = Finished("end_session", <<session_id>>, 0,
                                        Raise("ValueError"))
               /\ UNCHANGED <<shared, calls, returned, exchange>>
          ELSE IF session_id_str \notin DOMAIN _sessions
          THEN /\ response' = Finished("end_session", <<session_id>>, 0,
                                        MissingKey)
               /\ UNCHANGED <<shared, calls, returned, exchange>>
          ELSE LET k == _sessions[session_id_str]
               IN /\ _sessions' = Pop(_sessions, session_id_str)
                  /\ stop_events' = Signal(stop_events, k)
                  /\ CASE tasks[k] = "done" ->
                            /\ ctxs' = InvokeExit(ctxs, k)
                            /\ calls' = Suspend(Frame("end_session", <<session_id>>,
                                                       "aexit", k))
                            /\ response' = response
                       [] tasks[k] = "failed" ->
                            /\ ctxs' = ctxs
                            /\ calls' = calls
                            /\ response' = Finished("end_session", <<session_id>>, k,
                                                     Raise("TaskError"))
                       [] OTHER ->
                            /\ ctxs' = ctxs
                            /\ calls' = Suspend(Frame("end_session", <<session_id>>,
                                                       "await_task", k))
                            /\ response' = response
                  /\ UNCHANGED <<tasks, rec_sessions, rec_events, returned, exchange>>

\* Variant: the task is not awaited before __aexit__ is invoked.
EndTaskJoined_nowait(f) ==
    /\ Ready
    /\ f.pc = "await_task"
    /\ calls' = Move(f, "aexit")
    /\ ctxs' = InvokeExit(ctxs, f.k)
    /\ UNCHANGED <<_sessions, tasks, stop_events, rec_sessions, rec_events, response,
                   returned, exchange>>

\* Variant: when the task raised, the entry is put back before the
\* exception leaves end_session.
EndTaskJoined_restore(f) ==
    /\ Ready
    /\ f.pc = "await_task"
    /\ tasks[f.k] \in {"done", "failed"}
    /\ IF tasks[f.k] = "failed"
       THEN /\ response' = Finished("end_session", f.args, f.k, Raise("TaskError"))
            /\ calls' = Resume(f)
            /\ ctxs' = ctxs
            /\ _sessions' = Register(_sessions, SessionKey(ctxs[f.k].session), f.k)
       ELSE /\ calls' = Move(f, "aexit")
            /\ response' = response
            /\ ctxs' = InvokeExit(ctxs, f.k)
            /\ _sessions' = _sessions
    /\ UNCHANGED <<tasks, stop_events, rec_sessions, rec_events, returned, exchange>>

\* `await task` resumes: with the task's exception, or normally, and then
\* ctx.__aexit__ is invoked.
EndTaskJoined(f) ==
    /\ Ready
    /\ f.pc = "await_task"
    /\ tasks[f.k] \in {"done", "failed"}
    /\ IF tasks[f.k] = "failed"
       THEN /\ response' = Finished("end_session", f.args, f.k, Raise("TaskError"))
            /\ calls' = Resume(f)
            /\ ctxs' = ctxs
       ELSE /\ calls' = Move(f, "aexit")
            /\ response' = response
            /\ ctxs' = InvokeExit(ctxs, f.k)
    /\ UNCHANGED <<_sessions, tasks, stop_events, rec_sessions, rec_events, returned, exchange>>

\* __aexit__ completes and end_session returns.
EndReleased(f) ==
    /\ Ready
    /\ f.pc = "aexit"
    /\ ctxs' = [ctxs EXCEPT ![f.k].state = "exited"]
    /\ response' = Finished("end_session", f.args, f.k, Ok(None))
    /\ calls' = Resume(f)
    /\ returned' = returned \cup {f.k}
    /\ UNCHANGED <<_sessions, tasks, stop_events, rec_sessions, rec_events, exchange>>

\* Variant: the exception of __aexit__ is swallowed and end_session
\* returns normally.
EndReleaseFail_swallow(f) ==
    /\ Ready
    /\ f.pc = "aexit"
    /\ ctxs' = [ctxs EXCEPT ![f.k].state = "exit_failed"]
    /\ response' = Finished("end_session", f.args, f.k, Ok(None))
    /\ calls' = Resume(f)
    /\ UNCHANGED <<_sessions, tasks, stop_events, rec_sessions, rec_events, returned, exchange>>

\* __aexit__ raises: the exception leaves end_session.
EndReleaseFail(f) ==
    /\ Ready
    /\ f.pc = "aexit"
    /\ ctxs' = [ctxs EXCEPT ![f.k].state = "exit_failed"]
    /\ response' = Finished("end_session", f.args, f.k, Raise("ReleaseError"))
    /\ calls' = Resume(f)
    /\ UNCHANGED <<_sessions, tasks, stop_events, rec_sessions, rec_events, returned, exchange>>

\* ------------------------------------------------------------------------
\* The background task: interceptor.run(stop_event)
\* ------------------------------------------------------------------------
TaskRun(k) ==
    /\ Ready
    /\ k \in 1..Len(tasks)
    /\ tasks[k] = "scheduled"
    /\ tasks' = [tasks EXCEPT ![k] = "running"]
    /\ UNCHANGED <<_sessions, ctxs, stop_events, rec_sessions, rec_events, calls, response, returned, exchange>>

\* The interceptor feeds a captured event into handle.hook.
TaskCapture(k) ==
    /\ Ready
    /\ k \in 1..Len(tasks)
    /\ tasks[k] = "running"
    /\ LET u == ctxs[k].session.id
       IN /\ EventCount < MaxEvents
          /\ rec_events' = [rec_events EXCEPT ![u] =
                Append(@, [device |-> "/dev/input/event0", code |-> 30,
                           value |-> (Len(@) + 1) % 2, timestamp |-> Len(@) + 1])]
    /\ UNCHANGED <<_sessions, ctxs, tasks, stop_events, rec_sessions, calls, response,
                   returned, exchange>>

\* The task observes the stop event and finishes.
TaskStop(k) ==
    /\ Ready
    /\ k \in 1..Len(tasks)
    /\ tasks[k] = "running"
    /\ stop_events[k]
    /\ tasks' = [tasks EXCEPT ![k] = "done"]
    /\ UNCHANGED <<_sessions, ctxs, stop_events, rec_sessions, rec_events, calls, response, returned, exchange>>

\* The interceptor or a hook raises: the task finishes with an exception.
TaskFail(k) ==
    /\ Ready
    /\ k \in 1..Len(tasks)
    /\ tasks[k] = "running"
    /\ tasks' = [tasks EXCEPT ![k] = "failed"]
    /\ UNCHANGED <<_sessions, ctxs, stop_events, rec_sessions, rec_events, calls, response, returned, exchange>>

\* ------------------------------------------------------------------------
\* Reads
\* ------------------------------------------------------------------------
get_events(session_id) ==
    LET ulid_id == from_str(session_id)
    IN IF ulid_id.raises THEN Raise("ValueError")
       ELSE Ok(recorder_get_events(ulid_id.ulid))

\* Variant: only the sessions that are still active are listed.
list_sessions_active ==
    Ok(SelectSeq(recorder_list_sessions, LAMBDA x : str(x.id) \in DOMAIN _sessions))

list_sessions == Ok(recorder_list_sessions)

get_session(session_id) ==
    LET ulid_id == from_str(session_id)
    IN IF ulid_id.raises THEN Raise("ValueError")
       ELSE Ok(recorder_get_session(ulid_id.ulid))

\* A read runs to completion without suspending, whatever is suspended.
GetEvents(session_id) ==
    /\ Ready
    /\ response' = Finished("get_events", <<session_id>>, 0, get_events(session_id))
    /\ UNCHANGED <<shared, calls, returned, exchange>>

ListSessions ==
    /\ Ready
    /\ response' = Finished("list_sessions", << >>, 0, list_sessions)
    /\ UNCHANGED <<shared, calls, returned, exchange>>

GetSession(session_id) ==
    /\ Ready
    /\ response' = Finished("get_session", <<session_id>>, 0, get_session(session_id))
    /\ UNCHANGED <<shared, calls, returned, exchange>>

\* The outcome is handed to the caller.
Return ==
    /\ response # NoResponse
    /\ response' = NoResponse
    /\ UNCHANGED <<shared, calls, returned, exchange>>

Next ==
    \/ \E r \in StartRequests : StartCall(r[1], r[2])
    \/ \E f \in BagToSet(calls) : StartAcquired(f)
    \/ \E f \in BagToSet(calls) : StartAcquireFail(f)
    \/ \E s \in SessionIdStrings : EndCall(s)
    \/ \E f \in BagToSet(calls) : EndTaskJoined(f)
    \/ \E f \in BagToSet(calls) : EndReleased(f)
    \/ \E f \in BagToSet(calls) : EndReleaseFail(f)
    \/ \E k \in 1..MaxSessions : TaskRun(k)
    \/ \E k \in 1..MaxSessions : TaskCapture(k)
    \/ \E k \in 1..MaxSessions : TaskStop(k)
    \/ \E k \in 1..MaxSessions : TaskFail(k)
    \/ \E s \in SessionIdStrings : GetEvents(s)
    \/ ListSessions
    \/ \E s \in SessionIdStrings : GetSession(s)
    \/ Return

Spec == Init /\ [][Next]_vars

\* The event loop runs every coroutine that is ready: a task that can
\* start or can observe its stop event does, an end_session whose task has
\* finished resumes, a release that was invoked finishes (or raises), and
\* an outcome reaches its caller.  Nothing obliges a caller to call, nor a
\* device to produce an event.
Fairness ==
    /\ \A k \in 1..MaxSessions :
          /\ SF_vars(TaskRun(k))
          /\ SF_vars(TaskStop(k))
          /\ SF_vars(\E f \in BagToSet(calls) : f.k = k /\ EndTaskJoined(f))
          /\ SF_vars(\E f \in BagToSet(calls) :
                        f.k = k /\ (EndReleased(f) \/ EndReleaseFail(f)))
    /\ WF_vars(Return)

FairSpec == Spec /\ Fairness

\* ------------------------------------------------------------------------
\* The HTTP facade: create_app(session_manager) in api.py.  The handlers are
\* plain (non-async) functions: each runs to completion, an HTTPException
\* becomes the answer, any other exception is answered 500.
\* ------------------------------------------------------------------------
_SESSION_MANAGER_NOT_CONFIGURED == "SessionManager not configured"

\* create_app is given a SessionManager, or None.
Managers == {None, Some("SessionManager")}

\* The status values of a SessionStatusUpdate.
Statuses == {"ended", "invalid"}

\* A body that does not fit the request model (a required field missing).
Unvalidated == << >>
\* SessionCreateRequest: <<name, metadata>>.  SessionStatusUpdate: <<status>>.
PostBodies == StartRequests \cup {Unvalidated}
PatchBodies == {<<status>> : status \in Statuses} \cup {Unvalidated}

\* An answer: the status code, the detail of an error, the content of a
\* success, and the SessionManager methods the handler called, in order.
Answer(content, invoked) ==
    [status_code |-> 200, detail |-> "", content |-> content, invoked |-> invoked]
HTTPException(status_code, detail, invoked) ==
    [status_code |-> status_code, detail |-> detail, content |-> << >>,
     invoked |-> invoked]
\* An exception that is no HTTPException leaves the handler.
InternalServerError(invoked) == HTTPException(500, "Internal Server Error", invoked)
\* FastAPI rejects a body that does not fit the request model, before the
\* handler runs.
RequestValidationError == HTTPException(422, "Unprocessable Entity", << >>)

\* manager.op(*args) in a handler.
Invocation(op, args) == [op |-> op, args |-> args]

\* SessionResponse(id=str(session.session_id), name=session.name)
SessionResponse(session) == [id |-> str(session.id), name |-> session.name]
\* EventResponse(device=..., code=..., value=..., timestamp=...)
EventResponse(event) ==
    [device |-> event.device, code |-> event.code, value |-> event.value,
     timestamp |-> event.timestamp]

\* Variant: a missing manager is not detected.
NotConfigured_never(manager) == FALSE

\* _check_session_manager raises: manager is None.
NotConfigured(manager) == manager = None

\* Variant: every status is accepted.
InvalidStatus_none(status) == FALSE

\* status_update.status != "ended"
InvalidStatus(status) == status # "ended"

\* Variant: an absent session is answered with an empty success.
NotFound_empty(invoked) == Answer(<< >>, invoked)

\* raise HTTPException(status_code=404, detail=f"Session {session_id} not found")
NotFound(invoked) == HTTPException(404, "Session not found", invoked)

\* POST /sessions.  manager.start_session(...) is a call of a coroutine
\* function from a plain function: it makes a coroutine object and runs no
\* statement of start_session; reading session_id from that object raises
\* AttributeError.
api_start_session(manager, body) ==
    IF body = Unvalidated THEN RequestValidationError
    ELSE IF NotConfigured(manager)
    THEN HTTPException(500, _SESSION_MANAGER_NOT_CONFIGURED, << >>)
    ELSE InternalServerError(<<Invocation("start_session", body)>>)

\* PATCH /sessions/{session_id}.  manager.end_session(session_id) makes a
\* coroutine object that is dropped; no statement of end_session runs.
api_update_session_status(manager, session_id, body) ==
    IF body = Unvalidated THEN RequestValidationError
    ELSE IF InvalidStatus(body[1])
    THEN HTTPException(400, "Invalid status", << >>)
    ELSE IF NotConfigured(manager)
    THEN HTTPException(500, _SESSION_MANAGER_NOT_CONFIGURED, << >>)
    ELSE Answer(<<[status |-> "ended"]>>,
                <<Invocation("end_session", <<session_id>>)>>)

\* GET /sessions/{session_id}/events
api_get_events(manager, session_id) ==
    IF NotConfigured(manager)
    THEN HTTPException(500, _SESSION_MANAGER_NOT_CONFIGURED, << >>)
    ELSE LET events == get_events(session_id)
             invoked == <<Invocation("get_events", <<session_id>>)>>
         IN IF events.status # "ok" THEN InternalServerError(invoked)
            ELSE Answer(<<[i \in 1..Len(events.value) |->
                             EventResponse(events.value[i])]>>, invoked)

\* GET /sessions
api_list_sessions(manager) ==
    IF NotConfigured(manager)
    THEN HTTPException(500, _SESSION_MANAGER_NOT_CONFIGURED, << >>)
    ELSE LET sessions == list_sessions
             invoked == <<Invocation("list_sessions", << >>)>>
         IN IF sessions.status # "ok" THEN InternalServerError(invoked)
            ELSE Answer(<<[i \in 1..Len(sessions.value) |->
                             SessionResponse(sessions.value[i])]>>, invoked)

\* GET /sessions/{session_id}
api_get_session(manager, session_id) ==
    IF NotConfigured(manager)
    THEN HTTPException(500, _SESSION_MANAGER_NOT_CONFIGURED, << >>)
    ELSE LET session == get_session(session_id)
             invoked == <<Invocation("get_session", <<session_id>>)>>
         IN IF session.status # "ok" THEN InternalServerError(invoked)
            ELSE IF session.value = None THEN NotFound(invoked)
            ELSE Answer(<<SessionResponse(session.value[1])>>, invoked)

\* A request and the answer it got.
Exchange(method, path, body, manager, answer) ==
    [method |-> method, path |-> path, body |-> body, manager |-> manager,
     answer |-> answer]

PostSessions(manager, body) ==
    /\ Ready
    /\ exchange' = Exchange("POST /sessions", << >>, body, manager,
                            api_start_session(manager, body))
    /\ UNCHANGED <<shared, calls, response, returned>>

PatchSession(manager, session_id, body) ==
    /\ Ready
    /\ exchange' = Exchange("PATCH /sessions/{session_id}", <<session_id>>, body,
                            manager,
                            api_update_session_status(manager, session_id, body))
    /\ UNCHANGED <<shared, calls, response, returned>>

GetSessionEvents(manager, session_id) ==
    /\ Ready
    /\ exchange' = Exchange("GET /sessions/{session_id}/events", <<session_id>>,
                            << >>, manager, api_get_events(manager, session_id))
    /\ UNCHANGED <<shared, calls, response, returned>>

GetSessions(manager) ==
    /\ Ready
    /\ exchange' = Exchange("GET /sessions", << >>, << >>, manager,
                            api_list_sessions(manager))
    /\ UNCHANGED <<shared, calls, response, returned>>

GetSessionById(manager, session_id) ==
    /\ Ready
    /\ exchange' = Exchange("GET /sessions/{session_id}", <<session_id>>, << >>,
                            manager, api_get_session(manager, session_id))
    /\ UNCHANGED <<shared, calls, response, returned>>

\* The answer is sent.
Respond ==
    /\ exchange # NoExchange
    /\ exchange' = NoExchange
    /\ UNCHANGED <<shared, calls, response, returned>>

\* The SessionManager with its direct callers, and applications made by
\* create_app with it and without it.
ApiNext ==
    \/ Next
    \/ \E manager \in Managers, body \in PostBodies : PostSessions(manager, body)
    \/ \E manager \in Managers, s \in SessionIdStrings, body \in PatchBodies :
          PatchSession(manager, s, body)
    \/ \E manager \in Managers, s \in SessionIdStrings : GetSessionEvents(manager, s)
    \/ \E manager \in Managers : GetSessions(manager)
    \/ \E manager \in Managers, s \in SessionIdStrings : GetSessionById(manager, s)
    \/ Respond

ApiSpec == Init /\ [][ApiNext]_vars


\* ------------------------------------------------------------------------
\* Steps, as seen from the state before and after.
\* ------------------------------------------------------------------------

\* A call was made and completed in this step, without suspending.
Immediate(op) ==
    /\ Ready
    /\ response'.op = op
    /\ calls' = calls

\* end_session(session_id) was called in this step: it completed at once,
\* or it is suspended now.
EndIssued(session_id) ==
    /\ Ready
    /\ \/ /\ response'.op = "end_session"
          /\ response'.args = <<session_id>>
          /\ calls' = calls
       \/ /\ response' = response
          /\ BagCardinality(calls') > BagCardinality(calls)
          /\ \E f \in BagToSet(calls') :
                /\ f.op = "end_session"
                /\ f.args = <<session_id>>
                /\ calls' = Suspend(f)

\* A suspended call f completed in this step.
Completed(f) ==
    /\ Ready
    /\ response'.op = f.op
    /\ response'.k = f.k
    /\ f \in BagToSet(calls)
    /\ calls' = Resume(f)

\* The well-formed strings, and the registry key a well-formed string names.
WellFormed == {s \in SessionIdStrings : s.form \in Spellings}
KeyOf(s) == str(s.ulid)

\* The context registered or once registered under ULID u, as a set.
CtxsOf(u) == {k \in 1..Len(ctxs) : ctxs[k].session.id = u}

EndFrames == {f \in BagToSet(calls) : f.op = "end_session"}

\* ------------------------------------------------------------------------
\* C1: clean teardown.  Once an end_session call on a started session has
\* returned normally, the session's key is absent from the registry, its
\* background task has terminated, and __aexit__ of its context has been
\* invoked exactly once (and has completed).
\* ------------------------------------------------------------------------
C1_CleanTeardown ==
    /\ \A k \in returned :
          /\ SessionKey(ctxs[k].session) \notin DOMAIN _sessions
          /\ \A key \in DOMAIN _sessions : _sessions[key] # k
          /\ tasks[k] = "done"
          /\ ctxs[k].exits = 1
          /\ ctxs[k].state = "exited"
    /\ (response.op = "end_session" /\ response.result.status = "ok")
          => response.k \in returned

C1_Witness ==
    /\ response.op = "end_session"
    /\ response.result.status = "ok"
    /\ response.k \in returned
    /\ ctxs[response.k].exits = 1

\* ------------------------------------------------------------------------
\* C2: registration on start.  The step in which start_session returns a
\* session stores exactly one new entry, under the canonical string of the
\* returned session's id, for the context and task of that call; the task
\* is scheduled; the key was not in use, no other context ever had that id,
\* and the other entries are as they were.
\* ------------------------------------------------------------------------
C2_StartReturns(f) ==
    /\ f.op = "start_session"
    /\ Completed(f)
    /\ response'.result.status = "ok"

C3_ReleaseOnTaskFailure ==
    (response.op = "end_session" /\ response.result.status = "TaskError")
       => ctxs[response.k].exits = 1

\* ------------------------------------------------------------------------
\* C4: double end in sequence.  An end_session call for a registered
\* session is not answered not-found: it removes the entry and sets the stop
\* event.  An end_session call for a session whose end_session has already
\* returned normally raises KeyError and changes nothing: no release, no
\* signal.
\* ------------------------------------------------------------------------
EndedOk(u) == \E k \in returned : ctxs[k].session.id = u

C4_DoubleEnd ==
    [][\A s \in WellFormed :
         EndIssued(s) =>
            /\ KeyOf(s) \in DOMAIN _sessions =>
                  /\ KeyOf(s) \notin DOMAIN _sessions'
                  /\ stop_events'[_sessions[KeyOf(s)]]
                  /\ ~(Immediate("end_session") /\ response'.result.status = "KeyError")
            /\ EndedOk(s.ulid) =>
                  /\ Immediate("end_session")
                  /\ response'.result.status = "KeyError"
                  /\ UNCHANGED shared
      ]_vars

C4_Witness ==
    /\ response.op = "end_session"
    /\ response.result.status = "KeyError"
    /\ EndedOk(response.args[1].ulid)

\* ------------------------------------------------------------------------
\* C5: concurrent end on one identifier.  While an end_session call on a
\* session is suspended, the session's key is out of the registry, no other
\* end_session call holds the same context, and another end_session call
\* for that identifier raises KeyError and changes nothing; __aexit__ of a
\* context is never invoked twice.
\* ------------------------------------------------------------------------
C5_OneTeardown ==
    /\ \A f \in EndFrames :
          /\ CopiesIn(f, calls) = 1
          /\ \A g \in EndFrames : g.k = f.k => g = f
          /\ SessionKey(ctxs[f.k].session) \notin DOMAIN _sessions
    /\ \A k \in 1..Len(ctxs) : ctxs[k].exits <= 1

C5_ConcurrentEnd ==
    [][/\ C5_OneTeardown'
       /\ \A s \in WellFormed :
            (EndIssued(s) /\ \E f \in EndFrames : ctxs[f.k].session.id = s.ulid)
               => /\ Immediate("end_session")
                  /\ response'.result.status = "KeyError"
                  /\ UNCHANGED shared
      ]_vars

C5_Witness ==
    /\ response.op = "end_session"
    /\ response.result.status = "KeyError"
    /\ \E f \in EndFrames : ctxs[f.k].session.id = response.args[1].ulid

\* ------------------------------------------------------------------------
\* C6: no partial state on acquisition failure.  The step in which
\* __aenter__ fails ends start_session with that failure, and leaves the
\* registry, the tasks, the stop events and the recorder as they were; the
\* failed context never has a task or a registry entry.
\* ------------------------------------------------------------------------
C6_AcquireFails(f) ==
    /\ f.op = "start_session"
    /\ ctxs'[f.k].state = "enter_failed"
    /\ calls' = Resume(f)

C6_NoPartialState ==
    [][/\ \A f \in BagToSet(calls) :
            C6_AcquireFails(f) =>
               /\ response'.op = "start_session"
               /\ response'.result.status = "AcquireError"
               /\ UNCHANGED <<_sessions, tasks, stop_events, rec_sessions, rec_events>>
       /\ \A k \in 1..Len(ctxs') :
            ctxs'[k].state = "enter_failed" =>
               /\ tasks'[k] = "none"
               /\ \A key \in DOMAIN _sessions' : _sessions'[key] # k
      ]_vars

C6_Witness ==
    /\ response.op = "start_session"
    /\ response.result.status = "AcquireError"
    /\ ctxs[response.k].state = "enter_failed"
    /\ tasks[response.k] = "none"

\* ------------------------------------------------------------------------
\* C7: end of an unknown session.  end_session with a well-formed
\* identifier whose key is not in the registry raises KeyError at once and
\* leaves the registry, the contexts, the tasks, the stop events and the
\* recorder unchanged.
\* ------------------------------------------------------------------------
C7_EndUnknown ==
    [][\A s \in WellFormed :
         (EndIssued(s) /\ KeyOf(s) \notin DOMAIN _sessions)
            => /\ Immediate("end_session")
               /\ response'.result.status = "KeyError"
               /\ UNCHANGED <<shared, calls, returned, exchange>>
      ]_vars

C7_Witness ==
    /\ response.op = "end_session"
    /\ response.result.status = "KeyError"
    /\ KeyOf(response.args[1]) \notin DOMAIN _sessions
    /\ DOMAIN _sessions # {}

\* ------------------------------------------------------------------------
\* C8: no cross-session interference.  In every step, the registry entry
\* of a session changes only by an end_session call for that session's
\* identifier, its stop event is set only by such a call, and __aexit__ of
\* its context is invoked only by the end_session call that holds it.
\* ------------------------------------------------------------------------
EndIssuedFor(key) == \E s \in WellFormed : KeyOf(s) = key /\ EndIssued(s)

C8_NoInterference ==
    [][/\ \A key \in DOMAIN _sessions :
            (key \notin DOMAIN _sessions' \/ _sessions'[key] # _sessions[key])
               => EndIssuedFor(key)
       /\ \A k \in 1..Len(ctxs) :
            /\ stop_events'[k] # stop_events[k]
                  => EndIssuedFor(SessionKey(ctxs[k].session))
            /\ ctxs'[k].exits # ctxs[k].exits
                  => \/ EndIssuedFor(SessionKey(ctxs[k].session))
                     \/ \E f \in EndFrames : f.k = k /\ calls' = Move(f, "aexit")
            /\ ctxs[k].state # "entering"
                  => ctxs'[k].session = ctxs[k].session
      ]_vars

C8_Witness ==
    \E f \in EndFrames :
       \E key \in DOMAIN _sessions :
          /\ _sessions[key] # f.k
          /\ ~stop_events[_sessions[key]]
          /\ tasks[_sessions[key]] = "running"
          /\ ctxs[_sessions[key]].exits = 0
          /\ stop_events[f.k]

\* ------------------------------------------------------------------------
\* C9: read delegation purity.  get_events, list_sessions and get_session
\* change nothing but the caller's outcome, and return what the recorder
\* holds: the events of the ULID the string spells, in the recorder's
\* order (the empty list when there are none); all session records in the
\* recorder's order; the session record with that ULID, or None.
\* ------------------------------------------------------------------------
Reads == {"get_events", "list_sessions", "get_session"}

\* What the recorder returns for the ULID that a well-formed string spells.
C9_Expected(op, args) ==
    CASE op = "get_events" -> Ok(recorder_get_events(args[1].ulid))
      [] op = "list_sessions" -> Ok(recorder_list_sessions)
      [] op = "get_session" -> Ok(recorder_get_session(args[1].ulid))

TakesIdentifier == {"end_session", "get_events", "get_session"}

C10_MalformedIdentifier ==
    [][/\ \A op \in TakesIdentifier :
            (Immediate(op) /\ response'.args[1] \notin WellFormed)
               => /\ response'.result = Raise("ValueError")
                  /\ response'.k = 0
                  /\ UNCHANGED <<shared, calls, returned, exchange>>
       /\ \A s \in SessionIdStrings \ WellFormed :
            EndIssued(s) => Immediate("end_session")
      ]_vars

C10_Witness ==
    /\ response.op = "end_session"
    /\ response.args = <<Malformed>>
    /\ response.result.status = "ValueError"
    /\ DOMAIN _sessions # {}

\* ------------------------------------------------------------------------
\* C11: termination of end.  Under fair scheduling, an end_session call
\* that holds a session's entry eventually returns with the context
\* released, unless the task raised or the release raised; and the call
\* leaves `await task` only when the task has terminated (no timeout), so
\* it waits for as long as the task runs.
\* ------------------------------------------------------------------------
C11_Ending(k) == \E f \in EndFrames : f.k = k

C11_Ended(k) ==
    /\ k <= Len(ctxs)
    /\ \/ k \in returned /\ ctxs[k].state = "exited"
       \/ tasks[k] = "failed"
       \/ ctxs[k].state = "exit_failed"

C11_NoTimeout ==
    \A f \in EndFrames :
       (f.pc = "await_task" /\ calls' # calls /\ CopiesIn(f, calls') < CopiesIn(f, calls))
          => tasks[f.k] \in {"done", "failed"}

C11_EndTerminates ==
    /\ \A k \in 1..MaxSessions : C11_Ending(k) ~> C11_Ended(k)
    /\ [][C11_NoTimeout]_vars

C11_Witness ==
    \E k \in returned :
       /\ response.op = "end_session"
       /\ response.k = k
       /\ stop_events[k]
       /\ tasks[k] = "done"
       /\ ctxs[k].state = "exited"
       /\ Len(rec_events[ctxs[k].session.id]) = MaxEvents

\* ------------------------------------------------------------------------
\* Requests, as seen from the state before and after.
\* ------------------------------------------------------------------------
PATCH == "PATCH /sessions/{session_id}"

\* A request of this method was answered in this step.
Answered(method) ==
    /\ Ready
    /\ exchange'.method = method

\* The context that is or was registered under the ULID a string spells.
CtxOf(s) == CHOOSE k \in CtxsOf(s.ulid) : TRUE

\* ------------------------------------------------------------------------
\* C12: HTTP end drives the teardown.  When PATCH /sessions/{id} with
\* status "ended", for a session that is registered, is answered 200 with
\* {"status": "ended"}, end_session has been called once with that id and
\* has run: the stop event is set, the task is done, the context is
\* released and the entry is removed.
\* ------------------------------------------------------------------------
C12_HttpEndTearsDown ==
    [][\A s \in WellFormed :
         (/\ Answered(PATCH)
          /\ exchange'.path = <<s>>
          /\ exchange'.answer.status_code = 200
          /\ KeyOf(s) \in DOMAIN _sessions)
            => /\ exchange'.answer.content = <<[status |-> "ended"]>>
               /\ exchange'.answer.invoked = <<Invocation("end_session", <<s>>)>>
               /\ KeyOf(s) \notin DOMAIN _sessions'
               /\ stop_events'[CtxOf(s)]
               /\ tasks'[CtxOf(s)] = "done"
               /\ ctxs'[CtxOf(s)].state = "exited"
               /\ ctxs'[CtxOf(s)].exits = 1
      ]_vars

\* ------------------------------------------------------------------------
\* C13: HTTP start drives the registration.  A POST /sessions request to an
\* application that has a manager runs start_session exactly once (one
\* context is requested from the recorder for the body's name and
\* metadata); when it is answered 200, the answer carries the id string and
\* the name of the session record start_session produced, and that session
\* is registered: context entered, task created, entry present.
\* ------------------------------------------------------------------------
POST == "POST /sessions"

C13_HttpStartRegisters ==
    [][(/\ Answered(POST)
        /\ exchange'.manager # None
        /\ exchange'.body # Unvalidated)
          => /\ exchange'.answer.invoked =
                   <<Invocation("start_session", exchange'.body)>>
             /\ Len(ctxs') = Len(ctxs) + 1
             /\ ctxs'[Len(ctxs')].name = exchange'.body[1]
             /\ exchange'.answer.status_code = 200 =>
                   \E k \in 1..Len(ctxs') :
                      /\ exchange'.answer.content = <<SessionResponse(ctxs'[k].session)>>
                      /\ ctxs'[k].session.name = exchange'.body[1]
                      /\ ctxs'[k].state = "entered"
                      /\ tasks'[k] # "none"
                      /\ SessionKey(ctxs'[k].session) \in DOMAIN _sessions'
                      /\ _sessions'[SessionKey(ctxs'[k].session)] = k
      ]_vars

\* ------------------------------------------------------------------------
\* C14: HTTP end of an unknown session.  PATCH /sessions/{id} with status
\* "ended", to an application that has a manager, for a well-formed id
\* that is not in the registry, is answered 404 (no success, no 500), and
\* the registry, the contexts, the tasks, the stop events and the recorder
\* are as they were.
\* ------------------------------------------------------------------------
C14_HttpEndUnknown ==
    [][\A s \in WellFormed :
         (/\ Answered(PATCH)
          /\ exchange'.manager # None
          /\ exchange'.path = <<s>>
          /\ exchange'.body = <<"ended">>
          /\ KeyOf(s) \notin DOMAIN _sessions)
            => /\ exchange'.answer.status_code = 404
               /\ Len(exchange'.answer.invoked) <= 1
               /\ UNCHANGED <<shared, calls, response, returned>>
      ]_vars

\* ------------------------------------------------------------------------
\* C15: status validation on PATCH.  PATCH /sessions/{id} with a status
\* other than "ended" is answered 400, whatever the id and whether or not
\* the application has a manager; end_session is not called, and the
\* registry, the contexts, the tasks, the stop events, the recorder and the
\* calls in progress are unchanged.
\* ------------------------------------------------------------------------
C15_StatusValidation ==
    [][(/\ Answered(PATCH)
        /\ exchange'.body # Unvalidated
        /\ exchange'.body[1] # "ended")
          => /\ exchange'.answer.status_code = 400
             /\ exchange'.answer.invoked = << >>
             /\ UNCHANGED <<shared, calls, response, returned>>
      ]_vars

C15_Witness ==
    /\ exchange.method = PATCH
    /\ exchange.body = <<"invalid">>
    /\ exchange.manager # None
    /\ exchange.answer.status_code = 400
    /\ exchange.path[1] \in WellFormed
    /\ KeyOf(exchange.path[1]) \in DOMAIN _sessions
    /\ ~stop_events[_sessions[KeyOf(exchange.path[1])]]

\* ------------------------------------------------------------------------
\* C16: absent session over HTTP.  get_session with a well-formed id the
\* recorder has no session for returns None (it does not raise); GET
\* /sessions/{id} for such an id, on an application that has a manager, is
\* answered 404 after one call of get_session with that id.
\* ------------------------------------------------------------------------
GET_SESSION == "GET /sessions/{session_id}"

C16_Absent(s) == \A i \in 1..Len(rec_sessions) : rec_sessions[i].id # s.ulid

C16_AbsentSession ==
    [][\A s \in WellFormed :
         C16_Absent(s) =>
            /\ (Immediate("get_session") /\ response'.args = <<s>>)
                  => response'.result = Ok(None)
            /\ (/\ Answered(GET_SESSION)
                /\ exchange'.manager # None
                /\ exchange'.path = <<s>>)
                  => /\ exchange'.answer.status_code = 404
                     /\ exchange'.answer.content = << >>
                     /\ exchange'.answer.invoked = <<Invocation("get_session", <<s>>)>>
                     /\ UNCHANGED <<shared, calls, response, returned>>
      ]_vars

C16_Witness ==
    /\ exchange.method = GET_SESSION
    /\ exchange.manager # None
    /\ exchange.answer.status_code = 404
    /\ exchange.path[1].form = "lowercase"
    /\ C16_Absent(exchange.path[1])
    /\ Len(rec_sessions) > 0

\* ------------------------------------------------------------------------
\* C17: unconfigured manager.  As claimed: on an application created
\* without a manager, every request to every endpoint, whatever its body,
\* is answered 500 with detail "SessionManager not configured".
\* ------------------------------------------------------------------------
C17_Unconfigured ==
    (exchange # NoExchange /\ exchange.manager = None)
       => /\ exchange.answer.status_code = 500
          /\ exchange.answer.detail = _SESSION_MANAGER_NOT_CONFIGURED

\* C17, amended: on an application created without a manager, every
\* request whose body fits the request model is answered 500 with detail
\* "SessionManager not configured" and no manager method is called, except
\* PATCH with a status other than "ended", which is answered 400; a body
\* that does not fit the request model is answered 422.
C17_UnconfiguredAfterValidation ==
    (exchange # NoExchange /\ exchange.manager = None)
       => /\ exchange.answer.invoked = << >>
          /\ exchange.answer.content = << >>
          /\ IF exchange.method \in {POST, PATCH} /\ exchange.body = Unvalidated
             THEN exchange.answer.status_code = 422
             ELSE IF exchange.method = PATCH /\ exchange.body # <<"ended">>
             THEN exchange.answer.status_code = 400
             ELSE /\ exchange.answer.status_code = 500
                  /\ exchange.answer.detail = _SESSION_MANAGER_NOT_CONFIGURED

C17_Witness ==
    /\ exchange.manager = None
    /\ exchange.method = PATCH
    /\ exchange.body = <<"ended">>
    /\ exchange.answer.status_code = 500
    /\ exchange.answer.detail = _SESSION_MANAGER_NOT_CONFIGURED
    /\ exchange.path[1] \in WellFormed
    /\ KeyOf(exchange.path[1]) \in DOMAIN _sessions

\* ------------------------------------------------------------------------
\* C18: registry invariant.  In every state, the await points inside
\* end_session included: a session whose identifier is in the registry has
\* a task that is scheduled or running (or, as claimed, has just been
\* signalled); a session that was started and whose identifier is not in
\* the registry has fully ended: its context released and its task joined.
\* ------------------------------------------------------------------------
\* The contexts that start_session has registered at some time.
Started == {k \in 1..Len(ctxs) : ctxs[k].state \notin {"entering", "enter_failed"}}

C18_RegistryInvariant ==
    /\ \A key \in DOMAIN _sessions :
          /\ _sessions[key] \in Started
          /\ SessionKey(ctxs[_sessions[key]].session) = key
          /\ \/ tasks[_sessions[key]] \in {"scheduled", "running"}
             \/ stop_events[_sessions[key]]
    /\ \A k \in Started :
          SessionKey(ctxs[k].session) \notin DOMAIN _sessions
             => /\ ctxs[k].state = "exited"
                /\ tasks[k] = "done"

\* ------------------------------------------------------------------------
\* C19: teardown order inside end.  A task is awaited by end_session only
\* with its stop event set; __aexit__ of a context is invoked only when
\* the session's task has terminated; a context is never being released
\* or released while its task has not terminated.
\* ------------------------------------------------------------------------
Terminated(k) == tasks[k] \in {"done", "failed"}

C19_Order ==
    /\ \A f \in EndFrames : stop_events[f.k]
    /\ \A k \in 1..Len(ctxs) :
          ctxs[k].state \in {"exiting", "exited", "exit_failed"}
             => /\ Terminated(k)
                /\ stop_events[k]

C19_TeardownOrder ==
    [][/\ C19_Order'
       /\ \A k \in 1..Len(ctxs) :
            /\ ctxs'[k].exits # ctxs[k].exits
                  => /\ Terminated(k)
                     /\ stop_events[k] \/ EndIssuedFor(SessionKey(ctxs[k].session))
                     /\ stop_events'[k]
            /\ (stop_events[k] /\ ~Terminated(k)) => ctxs'[k].exits = 0
      ]_vars

C19_Witness ==
    \E f \in EndFrames :
       /\ f.pc = "aexit"
       /\ ctxs[f.k].state = "exiting"
       /\ tasks[f.k] = "done"
       /\ stop_events[f.k]
       /\ \E g \in EndFrames : g.pc = "await_task" /\ tasks[g.k] = "running"

\* ------------------------------------------------------------------------
\* C20: release failure during end.  When the stop event was set, the task
\* terminated and __aexit__ raises, end_session ends with that exception
\* (it is not swallowed and not retried), and the session's identifier is
\* not in the registry, then and ever after.
\* ------------------------------------------------------------------------
C20_ReleaseFails(f) ==
    /\ f.op = "end_session"
    /\ ctxs[f.k].state = "exiting"
    /\ ctxs'[f.k].state = "exit_failed"

C20_ReleaseFailure ==
    [][/\ \A f \in BagToSet(calls) :
            C20_ReleaseFails(f) =>
               /\ stop_events[f.k] /\ tasks[f.k] = "done"
               /\ Completed(f)
               /\ response'.result = Raise("ReleaseError")
               /\ response'.args = f.args
               /\ ctxs'[f.k].exits = 1
               /\ SessionKey(ctxs[f.k].session) \notin DOMAIN _sessions'
               /\ UNCHANGED <<_sessions, tasks, stop_events, rec_sessions, rec_events>>
       /\ \A k \in 1..Len(ctxs) :
            ctxs[k].state = "exit_failed" =>
               /\ ctxs'[k] = ctxs[k]
               /\ SessionKey(ctxs[k].session) \notin DOMAIN _sessions'
               /\ \A key \in DOMAIN _sessions' : _sessions'[key] # k
      ]_vars

C20_Witness ==
    /\ response.op = "end_session"
    /\ response.result = Raise("ReleaseError")
    /\ ctxs[response.k].state = "exit_failed"
    /\ tasks[response.k] = "done"
    /\ SessionKey(ctxs[response.k].session) \notin DOMAIN _sessions
    /\ DOMAIN _sessions # {}

\* ------------------------------------------------------------------------
\* C21: the lifecycle is terminal per identifier.  With a recorder that
\* issues a fresh identifier on every acquisition: an identifier that was
\* registered and has been removed from the registry is never in it
\* again; and the step in which a start_session for an already used name
\* returns registers the session under an identifier no earlier session
\* had, and leaves every existing entry as it was.
\* ------------------------------------------------------------------------
\* The keys start_session has registered at some time.
KeysUsed == {SessionKey(ctxs[k].session) : k \in Started}
Removed == KeysUsed \ DOMAIN _sessions
NamesUsed == {ctxs[k].name : k \in Started}

C21_TerminalLifecycle ==
    [][/\ \A key \in Removed : key \notin DOMAIN _sessions'
       /\ \A f \in BagToSet(calls) :
            (C2_StartReturns(f) /\ f.args[1] \in NamesUsed) =>
               LET key == str(response'.result.value[1].id)
               IN /\ key \notin KeysUsed
                  /\ key \notin DOMAIN _sessions
                  /\ key \in DOMAIN _sessions'
                  /\ \A other \in DOMAIN _sessions :
                        /\ other \in DOMAIN _sessions'
                        /\ _sessions'[other] = _sessions[other]
                  /\ \A k \in Started : ctxs'[k] = ctxs[k]
      ]_vars

C21_Witness ==
    /\ response.op = "start_session"
    /\ response.result.status = "ok"
    /\ str(response.result.value[1].id) \in DOMAIN _sessions
    /\ \E k \in Started :
          /\ k # response.k
          /\ ctxs[k].name = response.args[1]
          /\ SessionKey(ctxs[k].session) \in Removed
          /\ ctxs[k].state = "exited"

\* ------------------------------------------------------------------------
\* C22: end is at most once per identifier, whatever its outcome.  Once an
\* end_session call has taken a session's entry, whether that call has
\* returned, has raised on the task's or the release's failure, or is
\* still suspended, every end_session call for that identifier raises
\* KeyError at once and changes nothing; no step of an end_session call
\* adds an entry to the registry; and no stop event is set and no
\* __aexit__ is invoked a second time.
\* ------------------------------------------------------------------------
C22_EndStep ==
    \/ \E s \in SessionIdStrings : EndIssued(s)
    \/ \E f \in EndFrames : calls' = Resume(f) \/ calls' = Move(f, "aexit")

C22_AtMostOnce ==
    [][/\ \A s \in WellFormed :
            (EndIssued(s) /\ KeyOf(s) \in Removed)
               => /\ Immediate("end_session")
                  /\ response'.result = Raise("KeyError")
                  /\ UNCHANGED shared
       /\ C22_EndStep => DOMAIN _sessions' \subseteq DOMAIN _sessions
       /\ \A k \in Started :
            SessionKey(ctxs[k].session) \in Removed
               => /\ stop_events'[k] = stop_events[k]
                  /\ ctxs'[k].exits <= 1
                  /\ ctxs'[k].exits # ctxs[k].exits
                        => \E f \in EndFrames :
                              f.k = k /\ f.pc = "await_task" /\ calls' = Move(f, "aexit")
      ]_vars

C22_Witness ==
    /\ response.op = "end_session"
    /\ response.result = Raise("KeyError")
    /\ response.args[1] \in WellFormed
    /\ KeyOf(response.args[1]) \in Removed
    /\ tasks[CtxOf(response.args[1])] = "failed"
    /\ ctxs[CtxOf(response.args[1])].exits = 0

====
